---- MODULE Spec2Model ----
(***************************************************************************)
(* Model of the Yew todo application of src/main.rs: the pure list         *)
(* transformations (create_new_todo, delete_todo, toggle_todo,             *)
(* update_todo_title), title reading and validation, the storage mirror    *)
(* (update_todos) and the event handlers of the App component.             *)
(*                                                                         *)
(* Text is a sequence of one-character strings, so that trimming is        *)
(* computed and not assumed.  Option<T> is a sequence of length 0 (None)   *)
(* or 1 (Some).  Todo ids are drawn from 1..MaxIds.                        *)
(***************************************************************************)
EXTENDS Integers, Sequences, FiniteSets, TLC

\* ------------------------------------------------------------------ bounds
MaxIds == 2
MaxLen == 3
MaxTodos == 2
MaxFailures == 1

Ids == 1..MaxIds
Chars == {" ", "a"}

\* All texts of at most MaxLen characters: the arguments of the pure functions.
Str == UNION {[1..n -> Chars] : n \in 0..MaxLen}

\* What the user types into an input element of the running component:
\* nothing, blanks only, a padded title.
Typed == {<<>>, <<" ">>, <<" ", "b">>}

\* Titles of the lists handed to the pure functions and found in storage.
ListTitles == {<<"b">>}

\* ------------------------------------------------------------------ Option
None == <<>>
Some(x) == <<x>>

\* ------------------------------------------------------------------ Todo
Todo(id, title, completed) == [id |-> id, title |-> title, completed |-> completed]

TodoRecords(titles) == {Todo(i, t, c) : i \in Ids, t \in titles, c \in BOOLEAN}

ListsOver(S) == UNION {[1..n -> S] : n \in 0..MaxTodos}

IdsOf(ts) == {ts[i].id : i \in 1..Len(ts)}

\* ------------------------------------------------------------------ pure functions
IsWhitespace(c) == c = " "

\* str::trim: the text between the first and the last non-whitespace character.
trim(s) ==
  LET keep == {i \in 1..Len(s) : ~IsWhitespace(s[i])}
      first == CHOOSE i \in keep : \A j \in keep : i <= j
      last_ == CHOOSE i \in keep : \A j \in keep : j <= i
  IN IF keep = {} THEN <<>> ELSE SubSeq(s, first, last_)

\* Mutant: the text is not trimmed.
read_input_title_raw(value) == value

read_input_title(value) == trim(value)

is_valid_title(title) == Len(title) # 0

\* Uuid::new_v4: a random 122-bit identifier, taken as an identifier that
\* collides with none of the list.
Uuid_new_v4(ts) == Ids \ IdsOf(ts)

\* Mutant: the new entry is put in front of the list.
create_new_todo_front(ts, title, uuid) == <<Todo(uuid, title, FALSE)>> \o ts

create_new_todo(ts, title, uuid) == Append(ts, Todo(uuid, title, FALSE))

\* Mutant: the filter keeps the matching entries.
delete_todo_keep(ts, id) == SelectSeq(ts, LAMBDA t : t.id = id)

delete_todo(ts, id) == SelectSeq(ts, LAMBDA t : t.id # id)

\* Mutant: the flag is set, not flipped.
toggle_todo_set(ts, id) ==
  [i \in 1..Len(ts) |->
     IF ts[i].id = id THEN [ts[i] EXCEPT !.completed = TRUE] ELSE ts[i]]

toggle_todo(ts, id) ==
  [i \in 1..Len(ts) |->
     IF ts[i].id = id THEN [ts[i] EXCEPT !.completed = ~ts[i].completed] ELSE ts[i]]

\* Mutant: the renamed entry is built afresh and loses its completed flag.
update_todo_title_fresh(ts, id, title) ==
  [i \in 1..Len(ts) |->
     IF ts[i].id = id THEN Todo(ts[i].id, title, FALSE) ELSE ts[i]]

update_todo_title(ts, id, title) ==
  [i \in 1..Len(ts) |->
     IF ts[i].id = id THEN [ts[i] EXCEPT !.title = title] ELSE ts[i]]

\* ------------------------------------------------------------------ state
VARIABLES
  todos,          \* use_state Vec<Todo>: the in-memory list
  storage,        \* the value under STORAGE_KEY in local storage
  storage_error,  \* use_state Option<String>: the recorded error message
  edit_id,        \* use_state Option<String>: the entry being edited
  input,          \* the text of the "Add a new task" input element
  failures,       \* how many writes to local storage have failed
  last,           \* the most recent handler invocation (history)
  call            \* the most recent direct call of a pure function (history)

vars == <<todos, storage, storage_error, edit_id, input, failures, last, call>>

\* The value under the key: absent, text that does not deserialize to
\* Vec<Todo>, or the serialization of a list.
Absent == [kind |-> "absent", items |-> <<>>]
Malformed == [kind |-> "malformed", items |-> <<>>]
Stored(ts) == [kind |-> "todos", items |-> ts]

StoredValues == {Absent, Malformed} \cup {Stored(ts) : ts \in ListsOver(TodoRecords(ListTitles))}

LoadError == "Failed to load todos"
StorageError == "Storage error"

\* LocalStorage::get: Ok(list) or Err.
LocalStorage_get(v) == IF v.kind = "todos" THEN [ok |-> TRUE, value |-> v.items]
                       ELSE [ok |-> FALSE, value |-> <<>>]

\* LocalStorage::set: the write succeeds (ok), or fails and leaves the value alone.
LocalStorage_set(ts, ok) ==
  /\ storage' = IF ok THEN Stored(ts) ELSE storage
  /\ failures' = IF ok THEN failures ELSE failures + 1

NoCall == [fn |-> "none", L |-> <<>>, id |-> None, t |-> <<>>, out |-> None,
           twice |-> <<>>, valid |-> FALSE]

Event(op, id, raw, write, new_todos) ==
  [op |-> op, id |-> id, raw |-> raw, write |-> write, new_todos |-> new_todos,
   prev_error |-> IF write = "none" THEN None ELSE storage_error]

Written(ok) == IF ok THEN "ok" ELSE "failed"

\* ------------------------------------------------------------------ storage mirror
\* Mutant: a successful write leaves the recorded error as it was.
save_todos_to_storage_keep_error(new_todos, ok) ==
  /\ LocalStorage_set(new_todos, ok)
  /\ storage_error' = IF ok THEN storage_error ELSE Some(StorageError)

save_todos_to_storage_with_error(new_todos, ok) ==
  /\ LocalStorage_set(new_todos, ok)
  /\ storage_error' = IF ok THEN None ELSE Some(StorageError)

update_todos_state(new_todos) == todos' = new_todos

\* Mutant: the list before the action is the one written.
update_todos_stale(new_todos, ok) ==
  /\ save_todos_to_storage_with_error(todos, ok)
  /\ update_todos_state(new_todos)

update_todos(new_todos, ok) ==
  /\ save_todos_to_storage_with_error(new_todos, ok)
  /\ update_todos_state(new_todos)

clear_input == input' = <<>>

\* Mutant: the edit state is left as it is.
clear_edit_state_noop == edit_id' = edit_id

clear_edit_state == edit_id' = None

set_edit_state(id) == edit_id' = Some(id)

\* ------------------------------------------------------------------ the App component
\* The first render: todos is loaded from storage, an error is recorded on failure.
app ==
  /\ storage \in StoredValues
  /\ LET got == LocalStorage_get(storage) IN
       /\ todos = (IF got.ok THEN got.value ELSE <<>>)
       /\ storage_error = (IF got.ok THEN None ELSE Some(LoadError))
  /\ edit_id = None
  /\ input = <<>>
  /\ failures = 0
  /\ last = [op |-> "load", id |-> None, raw |-> <<>>, write |-> "none",
             new_todos |-> todos, prev_error |-> None]
  /\ call = NoCall

Init == app

\* value is the text the user has typed into the "Add a new task" input when
\* the form is submitted; input_ref is bound once the component is rendered.
\* A rejected submit leaves the text in the element, an accepted one clears it.
on_submit(value, ok) ==
  LET title == read_input_title(value) IN
  /\ IF is_valid_title(title)
     THEN \E uuid \in Uuid_new_v4(todos) :
            LET new_todos == create_new_todo(todos, title, uuid) IN
            /\ update_todos(new_todos, ok)
            /\ clear_input
            /\ last' = Event("submit", None, value, Written(ok), new_todos)
     ELSE /\ input' = value
          /\ last' = Event("submit", None, value, "none", todos)
          /\ UNCHANGED <<todos, storage, storage_error, failures>>
  /\ UNCHANGED <<edit_id, call>>

on_delete(id, ok) ==
  LET new_todos == delete_todo(todos, id) IN
  /\ update_todos(new_todos, ok)
  /\ last' = Event("delete", Some(id), <<>>, Written(ok), new_todos)
  /\ UNCHANGED <<edit_id, input, call>>

on_toggle(id, ok) ==
  LET new_todos == toggle_todo(todos, id) IN
  /\ update_todos(new_todos, ok)
  /\ last' = Event("toggle", Some(id), <<>>, Written(ok), new_todos)
  /\ UNCHANGED <<edit_id, input, call>>

\* focus_input moves the focus (or logs) and changes no state.
on_edit(id) ==
  /\ set_edit_state(id)
  /\ last' = Event("edit", Some(id), <<>>, "none", todos)
  /\ UNCHANGED <<todos, storage, storage_error, input, failures, call>>

\* value is the text of the edit input element when Save is clicked; the
\* element is rendered beside the Save button, so edit_input_ref is bound.
on_update(id, value, ok) ==
  LET title == read_input_title(value) IN
  /\ IF is_valid_title(title)
     THEN LET new_todos == update_todo_title(todos, id, title) IN
          /\ update_todos(new_todos, ok)
          /\ clear_edit_state
          /\ last' = Event("save", Some(id), value, Written(ok), new_todos)
     ELSE /\ last' = Event("save", Some(id), value, "none", todos)
          /\ UNCHANGED <<todos, storage, storage_error, edit_id, failures>>
  /\ UNCHANGED <<input, call>>

on_cancel ==
  /\ clear_edit_state
  /\ last' = Event("cancel", None, <<>>, "none", todos)
  /\ UNCHANGED <<todos, storage, storage_error, input, failures, call>>

\* render_todo: the buttons an entry shows, by is_editing.
is_editing(id) == edit_id = Some(id)

\* The outcomes of a write that the failure budget still allows.
Oks == IF failures < MaxFailures THEN BOOLEAN ELSE {TRUE}

Blank(t) == \A i \in 1..Len(t) : t[i] = " "

Next ==
  \/ \E value \in Typed, ok \in Oks :
       (Len(todos) < MaxTodos \/ Blank(value)) /\ on_submit(value, ok)
  \/ \E id \in IdsOf(todos), ok \in Oks : ~is_editing(id) /\ on_delete(id, ok)
  \/ \E id \in IdsOf(todos), ok \in Oks : ~is_editing(id) /\ on_toggle(id, ok)
  \/ \E id \in IdsOf(todos) : ~is_editing(id) /\ on_edit(id)
  \/ \E id \in IdsOf(todos), value \in Typed, ok \in Oks :
       is_editing(id) /\ on_update(id, value, ok)
  \/ \E id \in IdsOf(todos) : is_editing(id) /\ on_cancel

Spec == Init /\ [][Next]_vars

\* ------------------------------------------------------------------ direct calls
\* The pure functions called on arbitrary arguments, as the unit tests call them,
\* and the handlers' computations on arbitrary lists and texts.
Lists == ListsOver(TodoRecords(ListTitles))

Result(fn, L, id, t, out, twice, valid) ==
  [fn |-> fn, L |-> L, id |-> id, t |-> t, out |-> out, twice |-> twice, valid |-> valid]

\* A call is made when none is pending; Return ends it.
Idle == call.fn = "none"

AppUnchanged == UNCHANGED <<todos, storage, storage_error, edit_id, input, failures, last>>

Call_is_valid_title(t) ==
  /\ Idle
  /\ AppUnchanged
  /\ call' = Result("is_valid_title", <<>>, None, t, None, <<>>, is_valid_title(t))

Call_delete_todo(L, id) ==
  /\ Idle
  /\ AppUnchanged
  /\ call' = Result("delete_todo", L, Some(id), <<>>, Some(delete_todo(L, id)), <<>>, TRUE)

Call_toggle_todo(L, id) ==
  /\ Idle
  /\ AppUnchanged
  /\ call' = Result("toggle_todo", L, Some(id), <<>>, Some(toggle_todo(L, id)),
                    toggle_todo(toggle_todo(L, id), id), TRUE)

\* on_submit's computation: read, validate, create.
Call_on_submit(L, t) ==
  /\ Idle
  /\ AppUnchanged
  /\ LET title == read_input_title(t) IN
     IF is_valid_title(title)
     THEN \E uuid \in Uuid_new_v4(L) :
            call' = Result("on_submit", L, None, t,
                           Some(create_new_todo(L, title, uuid)), <<>>, TRUE)
     ELSE call' = Result("on_submit", L, None, t, None, <<>>, FALSE)

\* on_update's computation: read, validate, rename.
Call_on_update(L, id, t) ==
  /\ Idle
  /\ AppUnchanged
  /\ LET title == read_input_title(t) IN
     IF is_valid_title(title)
     THEN call' = Result("on_update", L, Some(id), t,
                         Some(update_todo_title(L, id, title)), <<>>, TRUE)
     ELSE call' = Result("on_update", L, Some(id), t, None, <<>>, FALSE)

Return ==
  /\ call.fn # "none"
  /\ AppUnchanged
  /\ call' = NoCall

InitFn ==
  /\ todos = <<>>
  /\ storage = Absent
  /\ storage_error = None
  /\ edit_id = None
  /\ input = <<>>
  /\ failures = 0
  /\ last = [op |-> "none", id |-> None, raw |-> <<>>, write |-> "none",
             new_todos |-> <<>>, prev_error |-> None]
  /\ call = NoCall

NextFn ==
  \/ Idle /\ \E t \in Str : Call_is_valid_title(t)
  \/ Idle /\ \E L \in Lists, id \in Ids : Call_delete_todo(L, id)
  \/ Idle /\ \E L \in Lists, id \in Ids : Call_toggle_todo(L, id)
  \/ Idle /\ \E L \in Lists, t \in Str : Call_on_submit(L, t)
  \/ Idle /\ \E L \in Lists, id \in Ids, t \in Str : Call_on_update(L, id, t)
  \/ Return

SpecFn == InitFn /\ [][NextFn]_vars

\* ------------------------------------------------------------------ properties
\* r is t without its leading and trailing blanks.
IsTrimOf(r, t) ==
  \E i, j \in 0..Len(t) :
    /\ i + Len(r) + j = Len(t)
    /\ \A k \in 1..i : t[k] = " "
    /\ \A k \in (Len(t) - j + 1)..Len(t) : t[k] = " "
    /\ \A k \in 1..Len(r) : r[k] = t[i + k]
    /\ Len(r) > 0 => (r[1] # " " /\ r[Len(r)] # " ")

UniqueIds(ts) == \A i, j \in 1..Len(ts) : ts[i].id = ts[j].id => i = j

RemoveAt(ts, k) == SubSeq(ts, 1, k - 1) \o SubSeq(ts, k + 1, Len(ts))

\* C1: for a text whose trimmed form is not empty, the submit computation
\* yields the old list followed by one entry with the trimmed title, not
\* completed, under an id that no entry of the old list has.
C1_AddAppends ==
  (call.fn = "on_submit" /\ ~Blank(call.t)) =>
    /\ call.out # None
    /\ LET out == call.out[1]
           n == Len(call.L)
       IN /\ Len(out) = n + 1
          /\ SubSeq(out, 1, n) = call.L
          /\ IsTrimOf(out[n + 1].title, call.t)
          /\ out[n + 1].completed = FALSE
          /\ out[n + 1].id \notin IdsOf(call.L)

C1_Witness ==
  /\ call.fn = "on_submit"
  /\ Len(call.L) = 2
  /\ call.t = <<" ", "a", " ">>
  /\ call.out # None

\* C2: is_valid_title(text) is true exactly when text holds a character that
\* is not whitespace; it is false for "" and for blanks only.
C2_ValidIffNotBlank ==
  call.fn = "is_valid_title" => (call.valid <=> ~Blank(call.t))

C4_ToggleFlips ==
  call.fn = "toggle_todo" =>
    LET out == call.out[1]
        id == call.id[1]
    IN /\ Len(out) = Len(call.L)
       /\ \A i \in 1..Len(call.L) :
            /\ out[i].id = call.L[i].id
            /\ out[i].title = call.L[i].title
            /\ out[i].completed =
                 (IF call.L[i].id = id THEN ~call.L[i].completed ELSE call.L[i].completed)
       /\ call.twice = call.L
       /\ id \notin IdsOf(call.L) => out = call.L

C4_Witness ==
  /\ call.fn = "toggle_todo"
  /\ Len(call.L) = 2
  /\ call.L[1].id = call.id[1]
  /\ call.L[2].id # call.id[1]
  /\ call.L[1].completed
  /\ ~call.out[1][1].completed

\* C5: for a text whose trimmed form is not empty, the save computation sets
\* the title of the entries with the id to the trimmed text and leaves ids,
\* completed flags, the other entries, the length and the order as they
\* were; with an absent id it returns the list as it was.
C5_RenameFrame ==
  (call.fn = "on_update" /\ ~Blank(call.t)) =>
    /\ call.out # None
    /\ LET out == call.out[1]
           id == call.id[1]
       IN /\ Len(out) = Len(call.L)
          /\ \A i \in 1..Len(call.L) :
               /\ out[i].id = call.L[i].id
               /\ out[i].completed = call.L[i].completed
               /\ IF call.L[i].id = id
                  THEN IsTrimOf(out[i].title, call.t)
                  ELSE out[i].title = call.L[i].title
          /\ id \notin IdsOf(call.L) => out = call.L

C5_Witness ==
  /\ call.fn = "on_update"
  /\ Len(call.L) = 2
  /\ call.t = <<" ", "a", " ">>
  /\ call.L[2].id = call.id[1]
  /\ call.L[1].id # call.id[1]
  /\ call.L[2].completed
  /\ call.out # None
  /\ call.out[1][2].title = <<"a">>

\* C6: after an action that reached update_todos the in-memory list is the
\* new list; a failed write leaves an error message recorded, a successful
\* write leaves none.
C6_WriteOutcome ==
  last.write # "none" =>
    /\ last.op \in {"submit", "delete", "toggle", "save"}
    /\ todos = last.new_todos
    /\ last.write = "failed" => storage_error = Some(StorageError)
    /\ last.write = "ok" => storage_error = None

C6_Witness ==
  /\ last.write = "ok"
  /\ last.prev_error = Some(StorageError)
  /\ storage_error = None
  /\ failures > 0

\* C7: a submit or a save whose text is empty or blanks only changes neither
\* the in-memory list nor the stored value nor the recorded error.
C7_RejectedNoChange ==
  [][(last'.op \in {"submit", "save"} /\ Blank(last'.raw))
       => UNCHANGED <<todos, storage, storage_error>>]_vars

C7_Witness ==
  /\ last.op = "save"
  /\ last.raw = <<" ">>
  /\ Len(todos) > 0

\* C8: whenever no error is recorded the stored value is the in-memory list,
\* and a successful write has stored the list the action computed.
C8_StorageMirrors ==
  /\ storage_error = None => storage = Stored(todos)
  /\ last.write = "ok" => storage = Stored(last.new_todos)

C8_Witness ==
  /\ last.op = "toggle"
  /\ last.write = "ok"
  /\ Len(todos) = 2
  /\ storage = Stored(todos)

StorageHoldsOnlyTodos ==
  /\ DOMAIN storage = {"kind", "items"}
  /\ \A i \in 1..Len(storage.items) :
       DOMAIN storage.items[i] = {"id", "title", "completed"}

\* C9 as stated: edit_id is the entry's id after an edit request and None
\* after every save and every cancel; it is never in the stored value.
C9_ClearedOnEverySave ==
  /\ last.op = "edit" => edit_id = last.id
  /\ last.op \in {"save", "cancel"} => edit_id = None
  /\ StorageHoldsOnlyTodos

\* C9 as amended: edit_id is the entry's id after an edit request, None
\* after a cancel and after a save whose trimmed text is not empty, and
\* still the entry's id after a save whose text is empty or blanks only; it
\* is never in the stored value.
C9_EditState ==
  /\ last.op = "edit" => edit_id = last.id
  /\ last.op = "cancel" => edit_id = None
  /\ (last.op = "save" /\ ~Blank(last.raw)) => edit_id = None
  /\ (last.op = "save" /\ Blank(last.raw)) => edit_id = last.id
  /\ StorageHoldsOnlyTodos

C9_Witness ==
  /\ last.op = "save"
  /\ last.raw = <<" ", "b">>
  /\ edit_id = None
  /\ last.id # None

\* C10: no two entries of the in-memory list have the same id.
C10_UniqueIds == UniqueIds(todos)

\* The other half of C10, which holds: an action keeps the id at every
\* position, or (a delete) keeps only entries that were there.
IdsNeverChange ==
  [][IF last'.op = "delete"
     THEN \A j \in 1..Len(todos') : \E i \in 1..Len(todos) : todos'[j] = todos[i]
     ELSE /\ Len(todos') >= Len(todos)
          /\ \A i \in 1..Len(todos) : todos'[i].id = todos[i].id]_vars

====
